---- MODULE Spec2Model ----
(***************************************************************************)
(* letsTrade dashboard: the realtime notification hook (useNotifications   *)
(* over useRealtime), the recent-trades panel, the trade notification      *)
(* trigger with the notify-trade handler, and the portfolio summary.       *)
(*                                                                         *)
(* Spec           useNotifications + useRealtime against the notifications *)
(*                table and its change stream                              *)
(* SpecRedelivery Spec over a transport that may deliver an event again    *)
(* SpecTrades     RecentTrades against the trades table                    *)
(* SpecTrigger    notify_trade_changes and the notify-trade handler        *)
(* SpecSummary    getPortfolioSummary                                      *)
(* SpecHandlers   the notify-trade and notify-alert request handlers       *)
(* SpecShared     the three components subscribed to the trades table      *)
(* SpecDispatch   handleChange of useRealtime with any set of callbacks    *)
(* SpecPortfolio  check_portfolio_alerts on updates of a position          *)
(* SpecStrategy   the new-strategy page: chat tool calls, preview, save     *)
(* SpecCard       StrategyCard and the is_active flag of its row            *)
(* SpecTradesFair SpecTrades with events dispatched and timers firing       *)
(***************************************************************************)
EXTENDS Integers, Sequences, FiniteSets, TLC

(* ---------------------------- program constants ------------------------ *)

\* .limit(50) of the fetch and .slice(0, 50) of onInsert
NotificationLimit == 50
\* notifications.slice(0, 10) rendered by the bell: the rows a click can reach
DisplayCount == 10
\* .slice(0, 5) of RecentTrades and .limit(5) of getRecentTrades
RecentLimit == 5
\* loss_threshold and profit_threshold of check_portfolio_alerts (percent)
LossThreshold == 5
ProfitThreshold == 10

(* ------------------------------- bounds -------------------------------- *)

\* operations of the user and of the environment in one run: row inserts,
\* markAsRead and markAllAsRead calls, refresh() calls, re-subscriptions,
\* events delivered a second time
MaxOps == 3

VARIABLES
  \* ---- notifications table and its change stream
  db,             \* db[id] = is_read of the notification row id (ids 1..Len)
  nextSeq,        \* sequence number of the next change event
  wire,           \* change events in flight to the client, oldest first
  \* ---- useRealtime (one hook instance)
  chanState,      \* channel -> "none" | "joining" | "joined" | "closed"
  closeCount,     \* channel -> number of removeChannel calls on it
  channelRef,     \* channelRef.current (0 = null)
  nextChan,       \* id of the next channel supabase.channel() creates
  \* ---- useNotifications
  mounted,
  notifications,  \* held list, newest first
  unreadCount,
  isLoading,
  fetchState,     \* "requested" | "responded" | "idle"
  fetchData,      \* the response in flight: [ok, rows]
  markAllPending, \* markAllAsRead awaits its write
  \* ---- call counters (bounds) and history
  nInserts, nMarks, nMarkAll, nRefresh, nRedeliver,
  dispatched,     \* <<event seq, channel>> -> number of handleChange invocations
  lowered,        \* notification id -> total amount its UPDATE events lowered unreadCount
  sinceMarkAll,   \* what was applied since markAllAsRead last completed:
                  \* {"never"} before it, then a subset of {"insert", "fetch"}
  \* ---- RecentTrades and the trades table it shows
  tTable,         \* tTable[id] = status of the trade row id
  tWire,          \* change events of trades in flight to RecentTrades
  tMounted,
  trades,         \* held list, newest first
  newTradeIds,    \* highlight set
  timers,         \* pending 3-second timers, oldest first (the id each removes)
  refreshState,   \* "idle" | "responded": a server refresh whose props are in flight
  refreshData,    \* the initialTrades of that refresh
  lastInserted,   \* id of the trade of the last INSERT event processed (0: none)
  nTradeOps,
  \* ---- trades trigger and the notify-trade handler
  trgTable,       \* trgTable[id] = status of the trade row id
  trgPrice,       \* trgPrice[id] = executed_price of the trade row id (<<>>: null)
  trgLog,         \* statements on trades, oldest first, with the rows their
                  \* trigger run inserted
  notifRows,      \* notification rows inserted, oldest first: [type, trade_id, by]
  webhookQueue,   \* database-webhook payloads awaiting the notify-trade handler
  transitions,    \* trade id -> number of updates that took it into 'executed'
  nTrgOps,
  \* ---- getPortfolioSummary
  portfolio,      \* the rows the select returns
  summary,        \* what getPortfolioSummary returned
  \* ---- the serverless handlers notify-trade and notify-alert
  hEnvUrl,        \* NOTIFICATION_WEBHOOK_URL is configured
  hReq,           \* the request being served
  hReqs,          \* the requests received, oldest first
  hPc,            \* "idle" | "parse" | "insert" | "relay" | "respond"
  hStore,         \* notification rows the handlers stored: [type, req]
  hRelays,        \* calls of sendWebhookNotification: [req, outcome]
  hResponses,     \* answers given: [req, status, success]
  nReqs,          \* requests received so far
  \* ---- the hook instances subscribed to the trades table
  sMounted,       \* component -> mounted
  sRef,           \* ref slot -> the channel it holds (0 = null)
  sChans,         \* channels created, in order: [owner, client, state, closedBy]
  sWire,          \* change events in flight: [seq, chan]
  sDue,           \* event seq -> the channels subscribed when it was emitted
  sGot,           \* component -> the event seqs its callbacks were called with
  nShOps,
  \* ---- handleChange of useRealtime on its own
  dCallbacks,     \* which of onChange, onInsert, onUpdate, onDelete the caller gave
  dLog,           \* events dispatched, oldest first: [event, calls]
  nDispatch,
  \* ---- the portfolio alert trigger
  pfRate,         \* profit_loss_rate of the position
  pfLog,          \* UPDATE statements on the position: [old, new, rows]
  nPfOps,
  \* ---- the new-strategy page (NewStrategyPage, ChatInterface, StrategyPreview)
  messages,       \* parts of the assistant messages of useChat, oldest first
  effectDue,      \* the tool-call effect of ChatInterface is due to run
  strategy,       \* the preview: <<>> (null) or <<record>>
  isSaving,
  stInsert,       \* the insert into strategies in flight: <<>> or <<row>>
  strategies,     \* rows written to the strategies table by this page
  stAlerts,       \* alert() dialogs shown, oldest first
  stRoute,        \* "new" (this page) or "list" (/dashboard/strategies)
  stCleared,      \* <<>> or <<number of parts held at the last handleClear>>
  nStOps,
  \* ---- one StrategyCard and its row of the strategies table
  scStored,       \* is_active of the row in the database
  isActive,
  isUpdating,
  scPc,           \* handleToggle: "idle", "sent" (await pending), "answered"
  scNewStatus,      \* the value handleToggle is writing
  scError,        \* the { error } of the answered update
  scLog,          \* outcomes of the toggles so far, oldest first
  nScOps

notifVars == <<db, nextSeq, wire, chanState, closeCount, channelRef, nextChan,
               mounted, notifications, unreadCount, isLoading, fetchState,
               fetchData, markAllPending, nInserts, nMarks, nMarkAll, nRefresh,
               nRedeliver, dispatched, lowered, sinceMarkAll>>

tradeVars == <<tTable, tWire, tMounted, trades, newTradeIds, timers, refreshState,
               refreshData, lastInserted, nTradeOps>>

trgVars == <<trgTable, trgPrice, trgLog, notifRows, webhookQueue, transitions, nTrgOps>>

sumVars == <<portfolio, summary>>

hdlVars == <<hEnvUrl, hReq, hReqs, hPc, hStore, hRelays, hResponses, nReqs>>

dspVars == <<dCallbacks, dLog, nDispatch>>

pfVars == <<pfRate, pfLog, nPfOps>>

stVars == <<messages, effectDue, strategy, isSaving, stInsert, strategies, stAlerts,
           stRoute, stCleared, nStOps>>

scVars == <<scStored, isActive, isUpdating, scPc, scNewStatus, scError, scLog, nScOps>>

shVars == <<sMounted, sRef, sChans, sWire, sDue, sGot, nShOps>>

\* the state of the components other than the notification hook
otherVars == <<tradeVars, trgVars, sumVars, hdlVars, shVars, dspVars, pfVars, stVars, scVars>>

\* the state of the components other than RecentTrades, the trades trigger,
\* the portfolio summary, the handlers
notTradeVars == <<notifVars, trgVars, sumVars, hdlVars, shVars, dspVars, pfVars, stVars, scVars>>
notTrgVars == <<notifVars, tradeVars, sumVars, hdlVars, shVars, dspVars, pfVars, stVars, scVars>>
notSumVars == <<notifVars, tradeVars, trgVars, hdlVars, shVars, dspVars, pfVars, stVars, scVars>>
notHdlVars == <<notifVars, tradeVars, trgVars, sumVars, shVars, dspVars, pfVars, stVars, scVars>>
notShVars == <<notifVars, tradeVars, trgVars, sumVars, hdlVars, dspVars, pfVars, stVars, scVars>>
notDspVars == <<notifVars, tradeVars, trgVars, sumVars, hdlVars, shVars, pfVars, stVars, scVars>>
notPfVars == <<notifVars, tradeVars, trgVars, sumVars, hdlVars, shVars, dspVars, stVars, scVars>>
notStVars == <<notifVars, tradeVars, trgVars, sumVars, hdlVars, shVars, dspVars, pfVars, scVars>>
notScVars == <<notifVars, tradeVars, trgVars, sumVars, hdlVars, shVars, dspVars, pfVars, stVars>>

vars == <<notifVars, otherVars>>

(* ------------------------------ helpers -------------------------------- *)

Min(a, b) == IF a < b THEN a ELSE b
Max(a, b) == IF a > b THEN a ELSE b

\* Array.prototype.slice(0, n)
Take(s, n) == SubSeq(s, 1, Min(Len(s), n))

Row(i, r) == [id |-> i, is_read |-> r]

\* list.filter((n) => !n.is_read).length
UnreadIn(list) == Cardinality({k \in 1..Len(list) : ~list[k].is_read})

(* ------------------------- notifications table ------------------------- *)

\* the select without its limit
QueryNotificationsNoLimit(table) ==
  [k \in 1..Len(table) |-> Row(Len(table) - k + 1, table[Len(table) - k + 1])]

\* select * from notifications order by created_at desc limit 50
\* (ids are assigned in insertion order, so newest first = highest id first)
QueryNotifications(table) ==
  [k \in 1..Min(Len(table), NotificationLimit) |->
     Row(Len(table) - k + 1, table[Len(table) - k + 1])]

\* the rows already stored when the component mounts
InitialSizes == {0, 2, NotificationLimit, NotificationLimit + 1}
InitialPatterns == {"read", "ends"}

InitialTable(size, pattern) ==
  [i \in 1..size |->
     CASE pattern = "read"   -> TRUE
       [] pattern = "ends"   -> (i # 1 /\ i # size)]

(* --------------------------- change stream ----------------------------- *)

ChannelIds == 1..(MaxOps + 1)

JoinedChannels ==
  SelectSeq([c \in ChannelIds |-> c], LAMBDA c : chanState[c] = "joined")

\* the old row image of an UPDATE event. The migration sets no REPLICA IDENTITY
\* FULL and enables row level security, so the image may hold the primary key
\* only; payload.old.is_read is then undefined, which !payload.old.is_read
\* reads like false. With a full image it is the previous value.
OldImageFull(id, was, full) == Row(id, was)
OldImage(id, was, full) == IF full THEN Row(id, was) ELSE Row(id, FALSE)

\* one copy of the change per subscribed channel (was: the is_read the row
\* had before the change)
Emit(type, old, new, was, seq) ==
  [k \in 1..Len(JoinedChannels) |->
     [seq |-> seq, chan |-> JoinedChannels[k], type |-> type, old |-> old,
      new |-> new, was |-> was]]

\* the UPDATE events of one statement that flips the rows `ids` (ascending)
RECURSIVE EmitUpdates(_, _, _)
EmitUpdates(table, from, seq) ==
  IF from > Len(table) THEN <<>>
  ELSE IF table[from] THEN EmitUpdates(table, from + 1, seq)
  ELSE Emit("UPDATE", Row(from, FALSE), Row(from, TRUE), FALSE, seq)
         \o EmitUpdates(table, from + 1, seq + 1)

UnreadRows(table) == Cardinality({i \in 1..Len(table) : ~table[i]})

(* ------------------------------ useRealtime ---------------------------- *)

\* the channel the effect's cleanup hands to removeChannel (0: none)
CleanupTargetLeak == IF mounted THEN 0 ELSE channelRef
CleanupTarget == channelRef

\* channelRef.current after the effect opened channel c
RefAfterEffectStale(c) == channelRef
RefAfterEffect(c) == c

\* supabase.removeChannel(c)
RemoveChannel(cs, c) == IF c = 0 THEN cs ELSE [cs EXCEPT ![c] = "closed"]
CountClose(cc, c) == IF c = 0 THEN cc ELSE [cc EXCEPT ![c] = @ + 1]

(* ---------------------------- useNotifications ------------------------- *)

\* onInsert: setNotifications((prev) => [notification, ...prev].slice(0, 50))
OnInsertListNoSlice(prev, n) == <<n>> \o prev
OnInsertList(prev, n) == Take(<<n>> \o prev, NotificationLimit)

\* onInsert: setUnreadCount((prev) => prev + 1)
OnInsertCount(prev) == prev + 1

\* onUpdate that puts the updated row first instead of replacing it in place
OnUpdateListToFront(prev, new) ==
  IF \E k \in 1..Len(prev) : prev[k].id = new.id
    THEN <<new>> \o SelectSeq(prev, LAMBDA n : n.id # new.id)
    ELSE prev

\* onUpdate: prev.map((n) => (n.id === payload.new.id ? payload.new : n))
OnUpdateList(prev, new) ==
  [k \in 1..Len(prev) |-> IF prev[k].id = new.id THEN new ELSE prev[k]]

\* onUpdate: if (!old.is_read && new.is_read) setUnreadCount(max(0, prev - 1))
OnUpdateCountNoFloor(prev, old, new) ==
  IF ~old.is_read /\ new.is_read THEN prev - 1 ELSE prev
OnUpdateCount(prev, old, new) ==
  IF ~old.is_read /\ new.is_read THEN Max(0, prev - 1) ELSE prev

\* markAllAsRead, after the write: prev.map((n) => ({...n, is_read: true}))
MarkAllList(prev) == [k \in 1..Len(prev) |-> [prev[k] EXCEPT !.is_read = TRUE]]

\* markAllAsRead, after the write: setUnreadCount(0)
MarkAllCount(prev) == 0

\* the ids NotificationItem.handleClick can pass to markAsRead: displayed and
\* unread in the held list
Clickable ==
  {notifications[k].id : k \in {j \in 1..Min(Len(notifications), DisplayCount) :
                                   ~notifications[j].is_read}}

\* operations so far
Ops == nInserts + nMarks + nMarkAll + nRefresh + nRedeliver + (nextChan - 2)

Bump(f, k, d) == IF k \in DOMAIN f THEN [f EXCEPT ![k] = @ + d] ELSE f @@ (k :> d)

TypeOK ==
  /\ unreadCount \in Int
  /\ mounted \in BOOLEAN
  /\ isLoading \in BOOLEAN
  /\ fetchState \in {"requested", "responded", "idle"}
  /\ channelRef \in {0} \cup ChannelIds
  /\ Len(notifications) <= NotificationLimit + 1

\* a component that is not part of the run
TradesIdle ==
  /\ tTable = <<>> /\ tWire = <<>> /\ tMounted = FALSE /\ trades = <<>>
  /\ newTradeIds = {} /\ timers = <<>> /\ refreshState = "idle"
  /\ refreshData = <<>> /\ lastInserted = 0 /\ nTradeOps = 0

TrgIdle ==
  /\ trgTable = <<>> /\ trgPrice = <<>> /\ trgLog = <<>>
  /\ notifRows = <<>> /\ webhookQueue = <<>>
  /\ transitions = <<>> /\ nTrgOps = 0

SumIdle ==
  /\ portfolio = <<>> /\ summary = [computed |-> FALSE]

NoRequest == [fn |-> "none"]

HdlIdle ==
  /\ hEnvUrl = FALSE /\ hReq = NoRequest /\ hReqs = <<>> /\ hPc = "idle"
  /\ hStore = <<>>
  /\ hRelays = <<>> /\ hResponses = <<>> /\ nReqs = 0

\* the components that call useTradesRealtime
TradeSubscribers == {"RecentTrades", "LiveStats", "TradeNotifications"}

ShIdle ==
  /\ sMounted = [i \in TradeSubscribers |-> FALSE]
  /\ sRef = [i \in TradeSubscribers |-> 0]
  /\ sChans = <<>> /\ sWire = <<>> /\ sDue = <<>>
  /\ sGot = [i \in TradeSubscribers |-> {}]
  /\ nShOps = 0

DspIdle ==
  /\ dCallbacks = [onChange |-> FALSE, onInsert |-> FALSE, onUpdate |-> FALSE,
                   onDelete |-> FALSE]
  /\ dLog = <<>> /\ nDispatch = 0

PfIdle ==
  /\ pfRate = 0 /\ pfLog = <<>> /\ nPfOps = 0

StIdle ==
  /\ messages = <<>> /\ effectDue = FALSE /\ strategy = <<>>
  /\ isSaving = FALSE /\ stInsert = <<>> /\ strategies = <<>>
  /\ stAlerts = <<>> /\ stRoute = "new" /\ stCleared = <<>> /\ nStOps = 0

ScIdle ==
  /\ scStored = FALSE /\ isActive = FALSE /\ isUpdating = FALSE /\ scPc = "idle"
  /\ scNewStatus = FALSE /\ scError = FALSE /\ scLog = <<>> /\ nScOps = 0

NotifInit ==
  /\ \E size \in InitialSizes, pattern \in InitialPatterns :
       db = InitialTable(size, pattern)
  /\ nextSeq = 1
  /\ wire = <<>>
  \* first render: useRealtime's effect opens the first channel,
  \* the fetch effect calls fetchNotifications
  /\ chanState = [c \in ChannelIds |-> IF c = 1 THEN "joining" ELSE "none"]
  /\ closeCount = [c \in ChannelIds |-> 0]
  /\ channelRef = 1
  /\ nextChan = 2
  /\ mounted = TRUE
  /\ notifications = <<>>
  /\ unreadCount = 0
  /\ isLoading = TRUE
  /\ fetchState = "requested"
  /\ fetchData = [ok |-> TRUE, rows |-> <<>>]
  /\ markAllPending = FALSE
  /\ nInserts = 0 /\ nMarks = 0 /\ nMarkAll = 0 /\ nRefresh = 0 /\ nRedeliver = 0
  /\ dispatched = <<>>
  /\ lowered = <<>>
  /\ sinceMarkAll = {"never"}

Init == NotifInit /\ TradesIdle /\ TrgIdle /\ SumIdle /\ HdlIdle /\ ShIdle /\ DspIdle /\ PfIdle /\ StIdle /\ ScIdle

(* ---- the notifications table changes ---- *)

\* a trigger or a handler inserts a notification row (is_read defaults to FALSE)
DbInsert ==
  /\ Ops < MaxOps
  /\ nInserts' = nInserts + 1
  /\ db' = Append(db, FALSE)
  /\ wire' = wire \o Emit("INSERT", Row(0, FALSE), Row(Len(db) + 1, FALSE), FALSE, nextSeq)
  /\ nextSeq' = nextSeq + 1
  /\ UNCHANGED <<chanState, closeCount, channelRef, nextChan, mounted, notifications,
                 unreadCount, isLoading, fetchState, fetchData, markAllPending,
                 nMarks, nMarkAll, nRefresh, nRedeliver, dispatched, lowered, sinceMarkAll>>
  /\ UNCHANGED otherVars

\* the realtime server registers the subscription of channel c
ServerJoin(c) ==
  /\ chanState[c] = "joining"
  /\ chanState' = [chanState EXCEPT ![c] = "joined"]
  /\ UNCHANGED <<db, nextSeq, wire, closeCount, channelRef, nextChan, mounted,
                 notifications, unreadCount, isLoading, fetchState, fetchData,
                 markAllPending, nInserts, nMarks, nMarkAll, nRefresh, nRedeliver,
                 dispatched, lowered, sinceMarkAll>>
  /\ UNCHANGED otherVars

(* ---- useRealtime ---- *)

\* handleChange(payload) with useNotifications' onInsert / onUpdate
HandleChange(e) ==
  /\ dispatched' = Bump(dispatched, <<e.seq, e.chan>>, 1)
  /\ CASE e.type = "INSERT" ->
            /\ notifications' = OnInsertList(notifications, e.new)
            /\ unreadCount' = OnInsertCount(unreadCount)
            /\ lowered' = lowered
            /\ sinceMarkAll' = (sinceMarkAll \cup {"insert"})
       [] e.type = "UPDATE" ->
            /\ notifications' = OnUpdateList(notifications, e.new)
            /\ unreadCount' = OnUpdateCount(unreadCount, e.old, e.new)
            /\ lowered' = Bump(lowered, e.new.id,
                               unreadCount - OnUpdateCount(unreadCount, e.old, e.new))
            /\ sinceMarkAll' = sinceMarkAll

\* the transport hands the oldest event in flight to its channel; a channel
\* that was removed no longer dispatches
Deliver ==
  /\ wire # <<>>
  /\ wire' = Tail(wire)
  /\ IF chanState[Head(wire).chan] = "joined"
       THEN HandleChange(Head(wire))
       ELSE UNCHANGED <<notifications, unreadCount, dispatched, lowered, sinceMarkAll>>
  /\ UNCHANGED <<db, nextSeq, chanState, closeCount, channelRef, nextChan, mounted,
                 isLoading, fetchState, fetchData, markAllPending, nInserts, nMarks,
                 nMarkAll, nRefresh, nRedeliver>>
  /\ UNCHANGED otherVars

\* the transport delivers the oldest event in flight and will deliver it again
Redeliver ==
  /\ wire # <<>>
  /\ Ops < MaxOps
  /\ nRedeliver' = nRedeliver + 1
  /\ chanState[Head(wire).chan] = "joined"
  /\ HandleChange(Head(wire))
  /\ UNCHANGED <<db, nextSeq, wire, chanState, closeCount, channelRef, nextChan,
                 mounted, isLoading, fetchState, fetchData, markAllPending, nInserts,
                 nMarks, nMarkAll, nRefresh>>
  /\ UNCHANGED otherVars

\* a render gave onInsert / onUpdate a new identity, so handleChange changed:
\* the effect's cleanup runs, then the effect runs again
Resubscribe ==
  /\ mounted
  /\ Ops < MaxOps
  /\ chanState' = [RemoveChannel(chanState, CleanupTarget) EXCEPT ![nextChan] = "joining"]
  /\ closeCount' = CountClose(closeCount, CleanupTarget)
  /\ channelRef' = RefAfterEffect(nextChan)
  /\ nextChan' = nextChan + 1
  /\ UNCHANGED <<db, nextSeq, wire, mounted, notifications, unreadCount, isLoading,
                 fetchState, fetchData, markAllPending, nInserts, nMarks, nMarkAll,
                 nRefresh, nRedeliver, dispatched, lowered, sinceMarkAll>>
  /\ UNCHANGED otherVars

\* the component unmounts: the effect's cleanup runs
Unmount ==
  /\ mounted
  /\ mounted' = FALSE
  /\ chanState' = RemoveChannel(chanState, CleanupTarget)
  /\ closeCount' = CountClose(closeCount, CleanupTarget)
  /\ UNCHANGED <<db, nextSeq, wire, channelRef, nextChan, notifications, unreadCount,
                 isLoading, fetchState, fetchData, markAllPending, nInserts, nMarks,
                 nMarkAll, nRefresh, nRedeliver, dispatched, lowered, sinceMarkAll>>
  /\ UNCHANGED otherVars

(* ---- fetchNotifications ---- *)

\* the server answers the select: a snapshot of the table, or an error
FetchQuery ==
  /\ fetchState = "requested"
  /\ fetchState' = "responded"
  /\ \E ok \in BOOLEAN :
       fetchData' = [ok |-> ok, rows |-> IF ok THEN QueryNotifications(db) ELSE <<>>]
  /\ UNCHANGED <<db, nextSeq, wire, chanState, closeCount, channelRef, nextChan,
                 mounted, notifications, unreadCount, isLoading, markAllPending,
                 nInserts, nMarks, nMarkAll, nRefresh, nRedeliver, dispatched, lowered, sinceMarkAll>>
  /\ UNCHANGED otherVars

\* the await resumes: the rows replace the list, or the error is logged
FetchResolve ==
  /\ fetchState = "responded"
  /\ fetchState' = "idle"
  /\ IF fetchData.ok
       THEN /\ notifications' = fetchData.rows
            /\ unreadCount' = UnreadIn(fetchData.rows)
            /\ sinceMarkAll' = (sinceMarkAll \cup {"fetch"})
       ELSE UNCHANGED <<notifications, unreadCount, sinceMarkAll>>
  /\ isLoading' = FALSE
  /\ UNCHANGED <<db, nextSeq, wire, chanState, closeCount, channelRef, nextChan,
                 mounted, fetchData, markAllPending, nInserts, nMarks, nMarkAll,
                 nRefresh, nRedeliver, dispatched, lowered>>
  /\ UNCHANGED otherVars

\* refresh() = fetchNotifications again
Refresh ==
  /\ mounted
  /\ fetchState = "idle"
  /\ Ops < MaxOps
  /\ nRefresh' = nRefresh + 1
  /\ fetchState' = "requested"
  /\ UNCHANGED <<db, nextSeq, wire, chanState, closeCount, channelRef, nextChan,
                 mounted, notifications, unreadCount, isLoading, fetchData,
                 markAllPending, nInserts, nMarks, nMarkAll, nRedeliver, dispatched,
                 lowered, sinceMarkAll>>
  /\ UNCHANGED otherVars

(* ---- markAsRead / markAllAsRead ---- *)

\* markAsRead(id): update notifications set is_read = true where id = id;
\* nothing follows the await. full: the UPDATE event carries the full old row
MarkAsRead(id, full) ==
  /\ mounted
  /\ Ops < MaxOps
  /\ nMarks' = nMarks + 1
  /\ db' = [db EXCEPT ![id] = TRUE]
  /\ wire' = wire \o Emit("UPDATE", OldImage(id, db[id], full), Row(id, TRUE),
                          db[id], nextSeq)
  /\ nextSeq' = nextSeq + 1
  /\ UNCHANGED <<chanState, closeCount, channelRef, nextChan, mounted, notifications,
                 unreadCount, isLoading, fetchState, fetchData, markAllPending,
                 nInserts, nMarkAll, nRefresh, nRedeliver, dispatched, lowered, sinceMarkAll>>
  /\ UNCHANGED otherVars

\* markAllAsRead up to its await: update ... set is_read = true where is_read = false
MarkAllCall ==
  /\ mounted
  /\ unreadCount > 0
  /\ ~markAllPending
  /\ Ops < MaxOps
  /\ nMarkAll' = nMarkAll + 1
  /\ markAllPending' = TRUE
  /\ db' = [i \in 1..Len(db) |-> TRUE]
  /\ wire' = wire \o EmitUpdates(db, 1, nextSeq)
  /\ nextSeq' = nextSeq + UnreadRows(db)
  /\ UNCHANGED <<chanState, closeCount, channelRef, nextChan, mounted, notifications,
                 unreadCount, isLoading, fetchState, fetchData, nInserts, nMarks,
                 nRefresh, nRedeliver, dispatched, lowered, sinceMarkAll>>
  /\ UNCHANGED otherVars

\* markAllAsRead after its await: the optimistic local update
MarkAllReturn ==
  /\ markAllPending
  /\ markAllPending' = FALSE
  /\ notifications' = MarkAllList(notifications)
  /\ unreadCount' = MarkAllCount(unreadCount)
  /\ sinceMarkAll' = {}
  /\ UNCHANGED <<db, nextSeq, wire, chanState, closeCount, channelRef, nextChan,
                 mounted, isLoading, fetchState, fetchData, nInserts, nMarks,
                 nMarkAll, nRefresh, nRedeliver, dispatched, lowered>>
  /\ UNCHANGED otherVars

Next ==
  \/ DbInsert
  \/ \E c \in ChannelIds : ServerJoin(c)
  \/ Deliver
  \/ Resubscribe
  \/ Unmount
  \/ FetchQuery
  \/ FetchResolve
  \/ Refresh
  \/ \E id \in Clickable, full \in BOOLEAN : MarkAsRead(id, full)
  \/ MarkAllCall
  \/ MarkAllReturn

Spec == Init /\ [][Next]_vars

\* the same hook over a transport that delivers at least once
NextRedelivery == Next \/ Redeliver

SpecRedelivery == Init /\ [][NextRedelivery]_vars

(* ----------------------- useNotifications: claims ---------------------- *)

AllHeldRead == \A k \in 1..Len(notifications) : notifications[k].is_read

HeldRowRead(list, id) ==
  \E k \in 1..Len(list) : list[k].id = id /\ list[k].is_read

OpenChannels == {c \in ChannelIds : chanState[c] \in {"joining", "joined"}}

\* C1: once the initial fetch is applied and only INSERT events are processed,
\* unreadCount equals the number of held rows with is_read = false, and so
\* never exceeds the 50-row window.
C1_UnreadCountMatchesHeld ==
  (fetchState = "idle" /\ nMarks = 0 /\ nMarkAll = 0 /\ nRefresh = 0)
    => (unreadCount = UnreadIn(notifications) /\ unreadCount <= NotificationLimit)

\* C2: the read confirmations of one notification id, however often they are
\* delivered and however often markAsRead(id) was called, lower unreadCount by
\* at most one in total.
C2_LoweredOncePerId ==
  (nMarkAll = 0) => \A id \in DOMAIN lowered : lowered[id] <= 1

\* C4: after the component is unmounted none of its state is updated again.
C4_NoUpdateAfterUnmount ==
  [][~mounted => UNCHANGED <<notifications, unreadCount, isLoading>>]_vars

\* C5: every channel the hook opened is closed exactly once, by the teardown
\* of the effect that opened it (all but the current one while mounted, all of
\* them after unmount), and handleChange never runs for a closed channel.
C5_ClosedOnceInv ==
  /\ \A c \in ChannelIds :
       /\ closeCount[c] <= 1
       /\ (chanState[c] = "closed") <=> (closeCount[c] = 1)
       /\ (c < nextChan - 1) => chanState[c] = "closed"
       /\ (c >= nextChan) => chanState[c] = "none"
  /\ mounted => chanState[nextChan - 1] \in {"joining", "joined"}
  /\ ~mounted => chanState[nextChan - 1] = "closed"

C5_NoDispatchAfterClose ==
  \A k \in DOMAIN dispatched' :
     (chanState[k[2]] = "closed")
        => (k \in DOMAIN dispatched /\ dispatched'[k] = dispatched[k])

C5_ClosedExactlyOnce ==
  []C5_ClosedOnceInv /\ [][C5_NoDispatchAfterClose]_vars

\* a run that re-subscribed, dispatched an event and then unmounted
C5_Witness ==
  /\ ~mounted
  /\ nextChan > 2
  /\ DOMAIN dispatched # {}
  /\ \A c \in 1..(nextChan - 1) : chanState[c] = "closed" /\ closeCount[c] = 1

\* C6: a hook instance never has two open channels at once, and no change
\* event is dispatched to it twice.
C6_OneChannelOneDispatch ==
  /\ Cardinality(OpenChannels) <= 1
  /\ \A k \in DOMAIN dispatched : dispatched[k] = 1
  /\ \A k1, k2 \in DOMAIN dispatched : (k1[1] = k2[1]) => (k1 = k2)

\* an event was dispatched through a re-established channel
C6_Witness ==
  /\ nextChan > 2
  /\ chanState[1] = "closed"
  /\ \E k \in DOMAIN dispatched : k[2] > 1

\* C9: markAsRead(id) leaves the held row read and unreadCount lowered by one
\* as soon as the call is over, without any UPDATE event.
C9_MarkAsReadOptimistic ==
  [][\A id \in Clickable, full \in BOOLEAN :
       MarkAsRead(id, full) => (HeldRowRead(notifications', id)
                          /\ unreadCount' = unreadCount - 1)]_vars

\* C10: markAllAsRead completes with every held row read and unreadCount 0,
\* and as long as no notification is inserted after that, every echoed UPDATE
\* event leaves unreadCount at 0.
C10_MarkAllThenEchoesZero ==
  [][/\ MarkAllReturn => (AllHeldRead' /\ unreadCount' = 0)
     /\ (/\ Deliver
         /\ Head(wire).type = "UPDATE"
         /\ chanState[Head(wire).chan] = "joined"
         /\ sinceMarkAll \cap {"never", "insert"} = {}) => unreadCount' = 0]_vars

\* an INSERT event is being dispatched to onInsert in this step
InsertDispatched ==
  Deliver /\ Head(wire).type = "INSERT" /\ chanState[Head(wire).chan] = "joined"

\* an UPDATE event is being dispatched to onUpdate in this step
UpdateDispatched ==
  Deliver /\ Head(wire).type = "UPDATE" /\ chanState[Head(wire).chan] = "joined"

C15_AtMostLimit == Len(notifications) <= NotificationLimit

C15_InsertAtHeadStep ==
  InsertDispatched =>
    notifications' =
      IF Len(notifications) >= NotificationLimit
        THEN <<Head(wire).new>> \o SubSeq(notifications, 1, NotificationLimit - 1)
        ELSE <<Head(wire).new>> \o notifications

\* C15: the held list never has more than 50 rows; an INSERT event puts its
\* row first and keeps the others in order, dropping only the last row when
\* the list was full.
C15_CapAndInsertAtHead == []C15_AtMostLimit /\ [][C15_InsertAtHeadStep]_vars

\* a full list took one more row: the new row is first, the oldest row is gone
C15_Witness ==
  /\ DOMAIN dispatched # {}
  /\ Len(db) = NotificationLimit + 1
  /\ Len(notifications) = NotificationLimit
  /\ notifications[1].id = NotificationLimit + 1
  /\ notifications[2].id = NotificationLimit
  /\ notifications[NotificationLimit].id = 2

HeldIds == {notifications[k].id : k \in 1..Len(notifications)}

\* C16: an UPDATE event changes the held list only at the rows whose id is the
\* updated row's id, which become the new row image: the length, the order
\* and all other rows stay, and so does the whole list when the id is not held.
C16_UpdateInPlace ==
  [][UpdateDispatched =>
       /\ Len(notifications') = Len(notifications)
       /\ \A k \in 1..Len(notifications) :
            /\ (notifications[k].id # Head(wire).new.id)
                  => notifications'[k] = notifications[k]
            /\ (notifications[k].id = Head(wire).new.id)
                  => notifications'[k] = Head(wire).new
       /\ (Head(wire).new.id \notin HeldIds) => notifications' = notifications]_vars

\* UPDATE events were dispatched for a row that is held (now read, and not the
\* first row) and for a row that is not held
C16_Witness ==
  /\ \E id \in DOMAIN lowered : id \notin HeldIds
  /\ \E id \in DOMAIN lowered :
       \E k \in 2..Len(notifications) : notifications[k].id = id /\ notifications[k].is_read

\* the UPDATE event being dispatched is of a change that took the row's
\* is_read from false to true
ReadTransition == ~Head(wire).was /\ Head(wire).new.is_read

C17_NonNegative == unreadCount >= 0

C17_FlooredStep ==
  UpdateDispatched =>
    unreadCount' = IF ReadTransition /\ unreadCount > 0 THEN unreadCount - 1
                   ELSE unreadCount

\* C17: an UPDATE event lowers unreadCount by one (not below 0) when the
\* row's is_read went from false to true, every other update leaves it
\* unchanged, and unreadCount is never negative.
C17_LowersOnReadTransitionOnly == []C17_NonNegative /\ [][C17_FlooredStep]_vars

\* the rows of a successful select: the newest rows of the table, newest
\* first, 50 at most
C20_QueryStep ==
  (FetchQuery /\ fetchData'.ok) =>
     /\ Len(fetchData'.rows) = Min(Len(db), NotificationLimit)
     /\ \A k \in 1..Len(fetchData'.rows) :
          /\ fetchData'.rows[k].id = Len(db) - k + 1
          /\ fetchData'.rows[k].is_read = db[Len(db) - k + 1]

C20_ResolveStep ==
  FetchResolve =>
     /\ isLoading' = FALSE
     /\ fetchData.ok =>
          /\ notifications' = fetchData.rows
          /\ Len(notifications') <= NotificationLimit
          /\ unreadCount' =
               Cardinality({k \in 1..Len(fetchData.rows) : ~fetchData.rows[k].is_read})
     /\ ~fetchData.ok => UNCHANGED <<notifications, unreadCount>>

\* C20: a successful fetch replaces the held list by the fetched rows (the
\* newest 50 at most, newest first) and sets unreadCount to the number of
\* unread fetched rows; a failed fetch leaves both; either way isLoading ends
\* up false.
C20_FetchReplaces == [][C20_QueryStep /\ C20_ResolveStep]_vars

\* a first fetch filled the list from a table of more than 50 rows, and a
\* refresh then failed and left the list and the count as they were
C20_Witness ==
  /\ nRefresh > 0
  /\ fetchState = "idle"
  /\ ~fetchData.ok
  /\ ~isLoading
  /\ Len(db) > NotificationLimit
  /\ Len(notifications) = NotificationLimit
  /\ unreadCount > 0

(* ============================ RecentTrades ============================= *)

NotifIdle ==
  /\ db = <<>> /\ nextSeq = 1 /\ wire = <<>>
  /\ chanState = [c \in ChannelIds |-> "none"]
  /\ closeCount = [c \in ChannelIds |-> 0]
  /\ channelRef = 0 /\ nextChan = 1
  /\ mounted = FALSE /\ notifications = <<>> /\ unreadCount = 0
  /\ isLoading = FALSE /\ fetchState = "idle"
  /\ fetchData = [ok |-> TRUE, rows |-> <<>>]
  /\ markAllPending = FALSE
  /\ nInserts = 0 /\ nMarks = 0 /\ nMarkAll = 0 /\ nRefresh = 0 /\ nRedeliver = 0
  /\ dispatched = <<>> /\ lowered = <<>> /\ sinceMarkAll = {"never"}

Trade(i, st) == [id |-> i, status |-> st]

\* getRecentTrades: select * from trades order by created_at desc limit 5
GetRecentTrades(table) ==
  [k \in 1..Min(Len(table), RecentLimit) |->
     Trade(Len(table) - k + 1, table[Len(table) - k + 1])]

\* onNewTrade: setTrades((prev) => [trade, ...prev].slice(0, 5))
OnNewTradeList(prev, t) == Take(<<t>> \o prev, RecentLimit)

\* onTradeUpdate: prev.map((t) => (t.id === updatedTrade.id ? updatedTrade : t))
OnTradeUpdateList(prev, t) ==
  [k \in 1..Len(prev) |-> IF prev[k].id = t.id THEN t ELSE prev[k]]

\* the trades already stored when the dashboard page is rendered
InitialTradeCounts == {0, RecentLimit - 1, RecentLimit, RecentLimit + 1}

TradesInit ==
  /\ \E n \in InitialTradeCounts : tTable = [i \in 1..n |-> "pending"]
  /\ tWire = <<>>
  /\ tMounted = TRUE
  \* useState(initialTrades), the server's getRecentTrades() at render time
  /\ trades = GetRecentTrades(tTable)
  /\ newTradeIds = {}
  /\ timers = <<>>
  /\ refreshState = "idle"
  /\ refreshData = <<>>
  /\ lastInserted = 0
  /\ nTradeOps = 0

\* the trading bot inserts a trade row; subscribers get an INSERT event
TradeInsert ==
  /\ nTradeOps < MaxOps
  /\ nTradeOps' = nTradeOps + 1
  /\ tTable' = Append(tTable, "pending")
  /\ tWire' = IF tMounted
                THEN Append(tWire, [type |-> "INSERT", new |-> Trade(Len(tTable) + 1, "pending")])
                ELSE tWire
  /\ UNCHANGED <<tMounted, trades, newTradeIds, timers, refreshState, refreshData,
                 lastInserted>>
  /\ UNCHANGED notTradeVars

\* the trading bot reports a fill; subscribers get an UPDATE event
TradeUpdate(id) ==
  /\ nTradeOps < MaxOps
  /\ nTradeOps' = nTradeOps + 1
  /\ tTable[id] = "pending"
  /\ tTable' = [tTable EXCEPT ![id] = "executed"]
  /\ tWire' = IF tMounted
                THEN Append(tWire, [type |-> "UPDATE", new |-> Trade(id, "executed")])
                ELSE tWire
  /\ UNCHANGED <<tMounted, trades, newTradeIds, timers, refreshState, refreshData,
                 lastInserted>>
  /\ UNCHANGED notTradeVars

\* useTradesRealtime dispatches the oldest event to onNewTrade / onTradeUpdate;
\* the channel of an unmounted component is removed and dispatches nothing
TradeDeliver ==
  /\ tWire # <<>>
  /\ tWire' = Tail(tWire)
  /\ IF ~tMounted
       THEN UNCHANGED <<trades, newTradeIds, timers, lastInserted>>
       ELSE IF Head(tWire).type = "INSERT"
         THEN /\ trades' = OnNewTradeList(trades, Head(tWire).new)
              /\ newTradeIds' = newTradeIds \cup {Head(tWire).new.id}
              /\ timers' = Append(timers, Head(tWire).new.id)
              /\ lastInserted' = Head(tWire).new.id
         ELSE /\ trades' = OnTradeUpdateList(trades, Head(tWire).new)
              /\ UNCHANGED <<newTradeIds, timers, lastInserted>>
  /\ UNCHANGED <<tTable, tMounted, refreshState, refreshData, nTradeOps>>
  /\ UNCHANGED notTradeVars

\* a timer callback that leaves the set as it is
TimerFireKeeps ==
  /\ timers # <<>>
  /\ timers' = Tail(timers)
  /\ newTradeIds' = newTradeIds
  /\ UNCHANGED <<tTable, tWire, tMounted, trades, refreshState, refreshData,
                 lastInserted, nTradeOps>>
  /\ UNCHANGED notTradeVars

\* a 3-second timer fires: the highlight of its trade is removed
TimerFire ==
  /\ timers # <<>>
  /\ timers' = Tail(timers)
  /\ newTradeIds' = newTradeIds \ {Head(timers)}
  /\ UNCHANGED <<tTable, tWire, tMounted, trades, refreshState, refreshData,
                 lastInserted, nTradeOps>>
  /\ UNCHANGED notTradeVars

\* router.refresh(): the server renders the page again and reads the trades
RefreshQuery ==
  /\ tMounted
  /\ refreshState = "idle"
  /\ nTradeOps < MaxOps
  /\ nTradeOps' = nTradeOps + 1
  /\ refreshState' = "responded"
  /\ refreshData' = GetRecentTrades(tTable)
  /\ UNCHANGED <<tTable, tWire, tMounted, trades, newTradeIds, timers, lastInserted>>
  /\ UNCHANGED notTradeVars

\* the new initialTrades prop arrives: useEffect(() => setTrades(initialTrades))
RefreshApply ==
  /\ tMounted
  /\ refreshState = "responded"
  /\ refreshState' = "idle"
  /\ trades' = refreshData
  /\ UNCHANGED <<tTable, tWire, tMounted, newTradeIds, timers, refreshData,
                 lastInserted, nTradeOps>>
  /\ UNCHANGED notTradeVars

TradesUnmount ==
  /\ tMounted
  /\ tMounted' = FALSE
  /\ UNCHANGED <<tTable, tWire, trades, newTradeIds, timers, refreshState,
                 refreshData, lastInserted, nTradeOps>>
  /\ UNCHANGED notTradeVars

NextTrades ==
  \/ TradeInsert
  \/ \E id \in 1..Len(tTable) : TradeUpdate(id)
  \/ TradeDeliver
  \/ TimerFire
  \/ RefreshQuery
  \/ RefreshApply
  \/ TradesUnmount

InitTrades == NotifIdle /\ TradesInit /\ TrgIdle /\ SumIdle /\ HdlIdle /\ ShIdle /\ DspIdle /\ PfIdle /\ StIdle /\ ScIdle

SpecTrades == InitTrades /\ [][NextTrades]_vars

\* SpecTrades with the event loop doing its work: a delivered event is
\* dispatched and a timer that was set fires
SpecTradesFair == SpecTrades /\ WF_vars(TradeDeliver) /\ WF_vars(TimerFire)

\* the ids whose 3-second timer is pending
PendingTimerIds == {timers[k] : k \in 1..Len(timers)}

\* C24: every highlighted trade id has a pending 3-second timer, set by the
\* INSERT event received for it (so the set holds no id without a received
\* INSERT and no id whose timers have all fired), and once INSERT events
\* stop the highlight set becomes empty and stays empty.
C24_HighlightExpires ==
  [](newTradeIds \subseteq PendingTimerIds) /\ <>[](newTradeIds = {})

\* an INSERT was received and highlighted, and its timer has removed it
C24_Witness == lastInserted # 0 /\ timers = <<>> /\ newTradeIds = {} /\ tWire = <<>>

\* C7: the held trades list never has more than 5 entries, and its first entry
\* is the trade of the latest INSERT event (or one that is newer still).
C7_CapAndNewestFirst ==
  /\ Len(trades) <= RecentLimit
  /\ (lastInserted # 0) => (trades # <<>> /\ trades[1].id >= lastInserted)

\* the cap alone
RecentTradesCapped == Len(trades) <= RecentLimit

(* ============ notify_trade_changes and the notify-trade handler ========= *)

TradeStatuses == {"pending", "executed", "cancelled"}

NotifRow(type, id, by) == [type |-> type, trade_id |-> id, by |-> by]

\* notify_trade_changes: the rows the trigger inserts for one row change
TriggerRows(op, id, oldStatus, newStatus) ==
  (IF op = "UPDATE" /\ oldStatus # "executed" /\ newStatus = "executed"
     THEN <<NotifRow("trade_executed", id, "trigger")>> ELSE <<>>)
  \o (IF op = "INSERT" THEN <<NotifRow("trade_new", id, "trigger")>> ELSE <<>>)

\* serve handler of notify-trade: the rows it inserts for one webhook payload
\* (old_record is null for an INSERT: old_record?.status is undefined)
HandlerRows(payload) ==
  (IF payload.type = "UPDATE" /\ payload.old_status # "executed"
        /\ payload.status = "executed"
     THEN <<NotifRow("trade_executed", payload.id, "handler")>> ELSE <<>>)
  \o (IF payload.type = "INSERT"
        THEN <<NotifRow("trade_new", payload.id, "handler")>> ELSE <<>>)

\* executed_price of a trades row: NUMERIC, nullable, no default
ExecutedPrices == {<<>>, <<100>>}

\* the message of the 'trade_executed' row:
\* NEW.stock_name || ' ' || ... || NEW.executed_quantity || '주 @ ₩' || NEW.executed_price
\* (a NULL operand makes the whole text NULL; stock_name and order_type are
\* NOT NULL, executed_quantity defaults to 0)
ExecutedMessage(price) == IF price = <<>> THEN <<>> ELSE <<"text">>

\* notifications.message is NOT NULL: the trigger's INSERT raises on a NULL
\* message, which aborts the statement on trades that fired the trigger
TriggerRaises(op, oldStatus, newStatus, price) ==
  /\ \E k \in 1..Len(TriggerRows(op, 0, oldStatus, newStatus)) :
        TriggerRows(op, 0, oldStatus, newStatus)[k].type = "trade_executed"
  /\ ExecutedMessage(price) = <<>>

Statement(op, id, old, new, price) ==
  [op |-> op, id |-> id, old |-> old, new |-> new,
   rows |-> IF TriggerRaises(op, old, new, price) THEN <<>>
            ELSE TriggerRows(op, id, old, new),
   committed |-> ~TriggerRaises(op, old, new, price)]

TrgInit ==
  /\ trgTable = <<>>
  /\ trgPrice = <<>>
  /\ trgLog = <<>>
  /\ notifRows = <<>>
  /\ webhookQueue = <<>>
  /\ transitions = <<>>
  /\ nTrgOps = 0

\* INSERT on trades: the AFTER INSERT trigger runs in the statement, and the
\* database webhook posts the change to notify-trade
TrgInsert(st, price) ==
  /\ nTrgOps < MaxOps
  /\ nTrgOps' = nTrgOps + 1
  /\ trgTable' = Append(trgTable, st)
  /\ trgPrice' = Append(trgPrice, price)
  /\ trgLog' = Append(trgLog, Statement("INSERT", Len(trgTable) + 1, "none", st, price))
  /\ notifRows' = notifRows \o TriggerRows("INSERT", Len(trgTable) + 1, "none", st)
  /\ webhookQueue' = Append(webhookQueue,
        [type |-> "INSERT", id |-> Len(trgTable) + 1, status |-> st,
         old_status |-> "undefined"])
  /\ transitions' = Append(transitions, 0)
  /\ UNCHANGED notTrgVars

\* UPDATE on trades setting status and executed_price; when the trigger
\* raises, the statement is rolled back and no webhook is sent
TrgUpdate(id, st, price) ==
  /\ nTrgOps < MaxOps
  /\ nTrgOps' = nTrgOps + 1
  /\ trgLog' = Append(trgLog, Statement("UPDATE", id, trgTable[id], st, price))
  /\ IF TriggerRaises("UPDATE", trgTable[id], st, price)
       THEN UNCHANGED <<trgTable, trgPrice, notifRows, webhookQueue, transitions>>
       ELSE /\ trgTable' = [trgTable EXCEPT ![id] = st]
            /\ trgPrice' = [trgPrice EXCEPT ![id] = price]
            /\ notifRows' = notifRows \o TriggerRows("UPDATE", id, trgTable[id], st)
            /\ webhookQueue' = Append(webhookQueue,
                  [type |-> "UPDATE", id |-> id, status |-> st,
                   old_status |-> trgTable[id]])
            /\ transitions' = [transitions EXCEPT ![id] =
                  IF trgTable[id] # "executed" /\ st = "executed" THEN @ + 1 ELSE @]
  /\ UNCHANGED notTrgVars

\* notify-trade serves the oldest webhook request; the result of its insert
\* is not looked at, so a rejected insert goes unnoticed
HandlerRun ==
  /\ webhookQueue # <<>>
  /\ webhookQueue' = Tail(webhookQueue)
  /\ \E insertOk \in BOOLEAN :
       notifRows' = IF insertOk THEN notifRows \o HandlerRows(Head(webhookQueue))
                    ELSE notifRows
  /\ UNCHANGED <<trgTable, trgPrice, trgLog, transitions, nTrgOps>>
  /\ UNCHANGED notTrgVars

NextTrigger ==
  \/ \E st \in {"pending", "executed"}, price \in ExecutedPrices : TrgInsert(st, price)
  \/ \E id \in 1..Len(trgTable), st \in TradeStatuses, price \in ExecutedPrices :
        TrgUpdate(id, st, price)
  \/ HandlerRun

InitTrigger == NotifIdle /\ TradesIdle /\ TrgInit /\ SumIdle /\ HdlIdle /\ ShIdle /\ DspIdle /\ PfIdle /\ StIdle /\ ScIdle

SpecTrigger == InitTrigger /\ [][NextTrigger]_vars

ExecutedRows(id) ==
  Cardinality({k \in 1..Len(notifRows) :
                 notifRows[k].type = "trade_executed" /\ notifRows[k].trade_id = id})

\* C3: every update that takes a trade into 'executed' produces exactly one
\* 'trade_executed' notification row, the trigger's and the handler's together.
C3_OneExecutedRowPerTransition ==
  \A id \in 1..Len(trgTable) : ExecutedRows(id) = transitions[id]

RowTypes(rows) == [k \in 1..Len(rows) |-> rows[k].type]

\* what the trades trigger is to insert for a statement
ExpectedTypes(st) ==
  IF st.op = "INSERT" THEN <<"trade_new">>
  ELSE IF st.old # "executed" /\ st.new = "executed" THEN <<"trade_executed">>
  ELSE <<>>

\* the rule of the trigger on the statements that were not rolled back
TriggerRuleOnCommitted ==
  \A k \in 1..Len(trgLog) :
     trgLog[k].committed => RowTypes(trgLog[k].rows) = ExpectedTypes(trgLog[k])

\* C18: the trigger inserts exactly one 'trade_new' row for every INSERT on
\* trades (whatever its status), exactly one 'trade_executed' row for an
\* UPDATE from a status other than 'executed' to 'executed', and no row for
\* any other UPDATE.
C18_TriggerRule ==
  \A k \in 1..Len(trgLog) : RowTypes(trgLog[k].rows) = ExpectedTypes(trgLog[k])

(* ========================= getPortfolioSummary ========================= *)

\* positions the select returns in one run
MaxPositions == 2

\* market_value / profit_loss of a row: <<v>>, or <<>> for null
Amounts == {<<>>, <<0>>, <<50>>, <<100>>}
Profits == {<<>>, <<-50>>, <<0>>, <<100>>}

\* p.market_value || 0
OrZero(v) == IF v = <<>> THEN 0 ELSE v[1]

\* portfolio.reduce((sum, p) => sum + (p.<field> || 0), 0)
RECURSIVE SumValue(_)
SumValue(rows) ==
  IF rows = <<>> THEN 0 ELSE OrZero(Head(rows).market_value) + SumValue(Tail(rows))

RECURSIVE SumProfit(_)
SumProfit(rows) ==
  IF rows = <<>> THEN 0 ELSE OrZero(Head(rows).profit_loss) + SumProfit(Tail(rows))

\* IEEE-754 division a / b times 100, kept exact: a finite quotient is the
\* fraction num / den, a division by zero gives an infinity or NaN
Quotient100(a, b) ==
  IF b # 0 THEN [kind |-> "finite", num |-> a * 100, den |-> b]
  ELSE IF a > 0 THEN [kind |-> "Infinity", num |-> 0, den |-> 0]
  ELSE IF a < 0 THEN [kind |-> "-Infinity", num |-> 0, den |-> 0]
  ELSE [kind |-> "NaN", num |-> 0, den |-> 0]

Zero == [kind |-> "finite", num |-> 0, den |-> 1]

\* totalValue > 0 ? (totalProfit / (totalValue - totalProfit)) * 100 : 0
ProfitRate(totalValue, totalProfit) ==
  IF totalValue > 0 THEN Quotient100(totalProfit, totalValue - totalProfit) ELSE Zero

GetPortfolioSummary(rows) ==
  [computed |-> TRUE,
   totalValue |-> SumValue(rows),
   totalProfit |-> SumProfit(rows),
   profitRate |-> ProfitRate(SumValue(rows), SumProfit(rows)),
   positionCount |-> Len(rows)]

PositionRows == [market_value : Amounts, profit_loss : Profits]

RECURSIVE SeqsUpTo(_, _)
SeqsUpTo(S, n) ==
  IF n = 0 THEN {<<>>}
  ELSE SeqsUpTo(S, n - 1) \cup {Append(q, x) : q \in SeqsUpTo(S, n - 1), x \in S}

SumInit ==
  /\ portfolio \in SeqsUpTo(PositionRows, MaxPositions)
  /\ summary = [computed |-> FALSE]

Summarize ==
  /\ ~summary.computed
  /\ summary' = GetPortfolioSummary(portfolio)
  /\ UNCHANGED portfolio
  /\ UNCHANGED notSumVars

NextSummary == Summarize

InitSummary == NotifIdle /\ TradesIdle /\ TrgIdle /\ SumInit /\ HdlIdle /\ ShIdle /\ DspIdle /\ PfIdle /\ StIdle /\ ScIdle

SpecSummary == InitSummary /\ [][NextSummary]_vars

\* C8: profitRate is 0 whenever total value equals total profit, and the
\* computation never divides by zero.
C8_ZeroRateOnZeroCost ==
  summary.computed =>
    /\ (summary.totalValue = summary.totalProfit) => summary.profitRate.num = 0
    /\ summary.profitRate.kind = "finite"

(* ================= notify-trade and notify-alert handlers =============== *)

\* requests served in one run
MaxRequests == 2

\* what a request to notify-trade can carry
TradeRequests ==
  [fn : {"notify-trade"}, kind : {"OPTIONS", "unparseable"}]
  \cup [fn : {"notify-trade"}, kind : {"json"}, type : {"INSERT"},
        old_status : {"undefined"}, status : {"pending", "executed"}]
  \cup [fn : {"notify-trade"}, kind : {"json"}, type : {"UPDATE", "DELETE"},
        old_status : {"pending", "executed"}, status : {"pending", "executed"}]

\* what a request to notify-alert can carry
AlertRequests ==
  [fn : {"notify-alert"}, kind : {"OPTIONS", "unparseable"}]
  \cup [fn : {"notify-alert"}, kind : {"json"}, hasType : BOOLEAN,
        hasMessage : BOOLEAN, severity : {"info", "critical"}]

\* notify-alert: if (!alert.type || !alert.message)
MissingFieldsNever(req) == FALSE
MissingFields(req) == ~req.hasType \/ ~req.hasMessage

\* the notification a parsed request makes the handler send ("none": nothing)
NotificationFor(req) ==
  IF req.fn = "notify-trade"
    THEN LET rows == HandlerRows([type |-> req.type, id |-> nReqs,
                                  status |-> req.status, old_status |-> req.old_status])
         IN IF rows = <<>> THEN "none" ELSE rows[1].type
    ELSE "alert"

Response(status, success) == [req |-> nReqs, status |-> status, success |-> success]

\* the outcomes of fetch(webhookUrl): a 2xx answer, another answer, a throw
RelayOutcomes == {"ok", "non2xx", "throws"}

\* what sendWebhookNotification passes on to its caller after the outcome
RelayResult(outcome) == "returns"

\* the number of fetch calls sendWebhookNotification makes for one outcome
RelayCalls(outcome) == 1

RECURSIVE Repeat(_, _)
Repeat(x, n) == IF n = 0 THEN <<>> ELSE <<x>> \o Repeat(x, n - 1)

HdlInit ==
  /\ hEnvUrl \in BOOLEAN
  /\ hReq = NoRequest
  /\ hReqs = <<>>
  /\ hPc = "idle"
  /\ hStore = <<>>
  /\ hRelays = <<>>
  /\ hResponses = <<>>
  /\ nReqs = 0

\* serve(async (req) => ...) is entered
HdlReceive(req) ==
  /\ hPc = "idle"
  /\ nReqs < MaxRequests
  /\ nReqs' = nReqs + 1
  /\ hReq' = req
  /\ hReqs' = Append(hReqs, req)
  /\ hPc' = "parse"
  /\ UNCHANGED <<hEnvUrl, hStore, hRelays, hResponses>>
  /\ UNCHANGED notHdlVars

\* the CORS answer, req.json(), the validation and the choice of what to send
HdlParse ==
  /\ hPc = "parse"
  /\ CASE hReq.kind = "OPTIONS" ->
            /\ hResponses' = Append(hResponses, Response(200, "ok"))
            /\ hPc' = "idle"
       [] hReq.kind = "unparseable" ->
            /\ hResponses' = Append(hResponses, Response(500, FALSE))
            /\ hPc' = "idle"
       [] hReq.kind = "json" /\ hReq.fn = "notify-alert" /\ MissingFields(hReq) ->
            /\ hResponses' = Append(hResponses, Response(400, FALSE))
            /\ hPc' = "idle"
       [] OTHER ->
            /\ hResponses' = hResponses
            /\ hPc' = IF NotificationFor(hReq) = "none" THEN "respond" ELSE "insert"
  /\ UNCHANGED <<hEnvUrl, hReq, hReqs, hStore, hRelays, nReqs>>
  /\ UNCHANGED notHdlVars

\* await supabase.from("notifications").insert({...}): the result is dropped
HdlInsert ==
  /\ hPc = "insert"
  /\ \E stored \in BOOLEAN :
       hStore' = IF stored
                   THEN Append(hStore, [type |-> NotificationFor(hReq), req |-> nReqs])
                   ELSE hStore
  /\ hPc' = "relay"
  /\ UNCHANGED <<hEnvUrl, hReq, hReqs, hRelays, hResponses, nReqs>>
  /\ UNCHANGED notHdlVars

\* sendWebhookNotification
HdlRelay ==
  /\ hPc = "relay"
  /\ IF ~hEnvUrl
       THEN /\ hRelays' = Append(hRelays, [req |-> nReqs, outcome |-> "skipped"])
            /\ hResponses' = hResponses
            /\ hPc' = "respond"
       ELSE \E outcome \in RelayOutcomes :
            /\ hRelays' = hRelays \o Repeat([req |-> nReqs, outcome |-> outcome],
                                            RelayCalls(outcome))
            /\ IF RelayResult(outcome) = "throws"
                 THEN /\ hResponses' = Append(hResponses, Response(500, FALSE))
                      /\ hPc' = "idle"
                 ELSE /\ hResponses' = hResponses
                      /\ hPc' = "respond"
  /\ UNCHANGED <<hEnvUrl, hReq, hReqs, hStore, nReqs>>
  /\ UNCHANGED notHdlVars

\* the 200 answer at the end of the try block
HdlRespond ==
  /\ hPc = "respond"
  /\ hResponses' = Append(hResponses, Response(200, TRUE))
  /\ hPc' = "idle"
  /\ UNCHANGED <<hEnvUrl, hReq, hReqs, hStore, hRelays, nReqs>>
  /\ UNCHANGED notHdlVars

NextHandlers ==
  \/ \E req \in TradeRequests \cup AlertRequests : HdlReceive(req)
  \/ HdlParse
  \/ HdlInsert
  \/ HdlRelay
  \/ HdlRespond

InitHandlers == NotifIdle /\ TradesIdle /\ TrgIdle /\ SumIdle /\ HdlInit /\ ShIdle /\ DspIdle /\ PfIdle /\ StIdle /\ ScIdle

SpecHandlers == InitHandlers /\ [][NextHandlers]_vars

StoredFor(r) == {k \in 1..Len(hStore) : hStore[k].req = r}
ResponsesFor(r) == {k \in 1..Len(hResponses) : hResponses[k].req = r}
\* the calls of sendWebhookNotification for request r, and those that fetched
RelaysFor(r) == {k \in 1..Len(hRelays) : hRelays[k].req = r}
FetchesFor(r) == {k \in RelaysFor(r) : hRelays[k].outcome # "skipped"}

\* a relay failure is swallowed: the request is still answered 200 with
\* success = true, the relay is called once, and it is skipped without a URL
RelayFailureSwallowed ==
  \A r \in 1..nReqs :
     /\ Cardinality(FetchesFor(r)) <= 1
     /\ \A k \in ResponsesFor(r) :
          (RelaysFor(r) # {}) => (hResponses[k].status = 200 /\ hResponses[k].success = TRUE)
     /\ ~hEnvUrl => FetchesFor(r) = {}

\* C11: a failed relay is swallowed (the request is answered 200 with
\* success = true and the relay is called once), the notification row is in
\* the table by the time the relay is attempted, and without a webhook URL
\* the relay is skipped and the row is still stored.
C11_RelaySwallowedRowStored ==
  /\ RelayFailureSwallowed
  /\ \A r \in 1..nReqs : (RelaysFor(r) # {}) => (StoredFor(r) # {})

\* the body of request r parsed but has no type or no message
LacksTypeOrMessage(r) ==
  hReqs[r].kind = "json" /\ (hReqs[r].hasType => ~hReqs[r].hasMessage)

CreateClient(n) == n

\* the ref slot a hook instance reads and writes: its own useRef
RefSlotShared(i) == "RecentTrades"
RefSlot(i) == i

\* supabase.channel(`realtime:${table}`).on(...).subscribe() by component i,
\* the n-th channel created
NewChannel(i, n) ==
  [owner |-> i, client |-> CreateClient(n), state |-> "joining", closedBy |-> "nobody"]

\* client.removeChannel(c) by component i: the client leaves the topic, which
\* ends every subscription that client holds on the topic of c
RemoveFrom(chans, c, i) ==
  IF c = 0 THEN chans
  ELSE [k \in 1..Len(chans) |->
          IF chans[k].client = chans[c].client /\ chans[k].state # "closed"
            THEN [chans[k] EXCEPT !.state = "closed", !.closedBy = i]
            ELSE chans[k]]

\* the effects of the three components at the first render, in order
RECURSIVE MountAll(_, _, _)
MountAll(todo, chans, refs) ==
  IF todo = <<>> THEN <<chans, refs>>
  ELSE MountAll(Tail(todo),
                Append(chans, NewChannel(Head(todo), Len(chans) + 1)),
                [refs EXCEPT ![RefSlot(Head(todo))] = Len(chans) + 1])

MountOrder == <<"RecentTrades", "LiveStats", "TradeNotifications">>

ShInit ==
  /\ sMounted = [i \in TradeSubscribers |-> TRUE]
  /\ sChans = MountAll(MountOrder, <<>>, [i \in TradeSubscribers |-> 0])[1]
  /\ sRef = MountAll(MountOrder, <<>>, [i \in TradeSubscribers |-> 0])[2]
  /\ sWire = <<>>
  /\ sDue = <<>>
  /\ sGot = [i \in TradeSubscribers |-> {}]
  /\ nShOps = 0

\* the realtime server registers the subscription of channel c
ShJoin(c) ==
  /\ sChans[c].state = "joining"
  /\ sChans' = [sChans EXCEPT ![c].state = "joined"]
  /\ UNCHANGED <<sMounted, sRef, sWire, sDue, sGot, nShOps>>
  /\ UNCHANGED notShVars

\* a row of trades changes: one copy of the event per subscribed channel
ShEmit ==
  /\ nShOps < MaxOps
  /\ nShOps' = nShOps + 1
  /\ LET subscribed == SelectSeq([k \in 1..Len(sChans) |-> k],
                                 LAMBDA k : sChans[k].state = "joined")
     IN /\ sWire' = sWire \o [k \in 1..Len(subscribed) |->
                                [seq |-> Len(sDue) + 1, chan |-> subscribed[k]]]
        /\ sDue' = Append(sDue, {subscribed[k] : k \in 1..Len(subscribed)})
  /\ UNCHANGED <<sMounted, sRef, sChans, sGot>>
  /\ UNCHANGED notShVars

\* the oldest event in flight reaches its channel, which calls handleChange
\* of its owner unless it was removed
ShDeliver ==
  /\ sWire # <<>>
  /\ sWire' = Tail(sWire)
  /\ sGot' = IF sChans[Head(sWire).chan].state = "joined"
               THEN [sGot EXCEPT ![sChans[Head(sWire).chan].owner] = @ \cup {Head(sWire).seq}]
               ELSE sGot
  /\ UNCHANGED <<sMounted, sRef, sChans, sDue, nShOps>>
  /\ UNCHANGED notShVars

\* component i renders with new callbacks: cleanup, then the effect again
ShResubscribe(i) ==
  /\ sMounted[i]
  /\ nShOps < MaxOps
  /\ nShOps' = nShOps + 1
  /\ sChans' = Append(RemoveFrom(sChans, sRef[RefSlot(i)], i),
                      NewChannel(i, Len(sChans) + 1))
  /\ sRef' = [sRef EXCEPT ![RefSlot(i)] = Len(sChans) + 1]
  /\ UNCHANGED <<sMounted, sWire, sDue, sGot>>
  /\ UNCHANGED notShVars

\* component i unmounts: the effect's cleanup
ShUnmount(i) ==
  /\ sMounted[i]
  /\ nShOps < MaxOps
  /\ nShOps' = nShOps + 1
  /\ sMounted' = [sMounted EXCEPT ![i] = FALSE]
  /\ sChans' = RemoveFrom(sChans, sRef[RefSlot(i)], i)
  /\ UNCHANGED <<sRef, sWire, sDue, sGot>>
  /\ UNCHANGED notShVars

NextShared ==
  \/ \E c \in 1..Len(sChans) : ShJoin(c)
  \/ ShEmit
  \/ ShDeliver
  \/ \E i \in TradeSubscribers : ShResubscribe(i)
  \/ \E i \in TradeSubscribers : ShUnmount(i)

InitShared == NotifIdle /\ TradesIdle /\ TrgIdle /\ SumIdle /\ HdlIdle /\ ShInit /\ DspIdle /\ PfIdle /\ StIdle /\ ScIdle

SpecShared == InitShared /\ [][NextShared]_vars

\* the newest channel component i created
LastChannelOf(i) ==
  CHOOSE c \in 1..Len(sChans) :
    sChans[c].owner = i /\ \A d \in 1..Len(sChans) : sChans[d].owner = i => d <= c

InFlight(seq, c) == \E k \in 1..Len(sWire) : sWire[k].seq = seq /\ sWire[k].chan = c

\* C13: a subscription is closed only by the component that created it; a
\* mounted component's newest subscription stays open whatever the others do;
\* and every event emitted while that subscription was registered reaches the
\* component's callbacks.
C13_ExclusiveOwnership ==
  /\ \A c \in 1..Len(sChans) :
       (sChans[c].state = "closed") => (sChans[c].closedBy = sChans[c].owner)
  /\ \A i \in TradeSubscribers :
       sMounted[i] =>
         /\ sChans[LastChannelOf(i)].state # "closed"
         /\ \A e \in 1..Len(sDue) :
              (LastChannelOf(i) \in sDue[e] /\ ~InFlight(e, LastChannelOf(i)))
                 => e \in sGot[i]

\* one component unmounted, another re-subscribed, and an event emitted after
\* both reached the third component
C13_Witness ==
  /\ \E i \in TradeSubscribers : ~sMounted[i]
  /\ \E i \in TradeSubscribers : sMounted[i] /\ LastChannelOf(i) > Cardinality(TradeSubscribers)
  /\ \E i \in TradeSubscribers :
       /\ sMounted[i]
       /\ LastChannelOf(i) <= Cardinality(TradeSubscribers)
       /\ Len(sDue) \in sGot[i]

(* ====================== useRealtime: handleChange ====================== *)

\* the payloads the channel can hand to handleChange: new is {} for a DELETE,
\* old is {} for an INSERT (written as the row with id 0)
NoRow == Row(0, FALSE)
SomeRows == {Row(1, FALSE), Row(1, TRUE), Row(2, FALSE)}
Payloads ==
  [eventType : {"INSERT"}, old : {NoRow}, new : SomeRows]
  \cup [eventType : {"UPDATE"}, old : SomeRows, new : SomeRows]
  \cup [eventType : {"DELETE"}, old : SomeRows, new : {NoRow}]

Call(fn, arg) == [fn |-> fn, arg |-> arg]

\* the switch of handleChange without its break statements
TypedCallsFallThrough(cb, payload) ==
  (IF payload.eventType = "INSERT" /\ cb.onInsert
     THEN <<Call("onInsert", <<payload.new>>)>> ELSE <<>>)
  \o (IF payload.eventType \in {"INSERT", "UPDATE"} /\ cb.onUpdate
        THEN <<Call("onUpdate", <<payload.old, payload.new>>)>> ELSE <<>>)
  \o (IF cb.onDelete THEN <<Call("onDelete", <<payload.old>>)>> ELSE <<>>)

\* switch (payload.eventType) { case "INSERT": onInsert?.(...); break; ... }
TypedCalls(cb, payload) ==
  CASE payload.eventType = "INSERT" ->
         IF cb.onInsert THEN <<Call("onInsert", <<payload.new>>)>> ELSE <<>>
    [] payload.eventType = "UPDATE" ->
         IF cb.onUpdate THEN <<Call("onUpdate", <<payload.old, payload.new>>)>> ELSE <<>>
    [] payload.eventType = "DELETE" ->
         IF cb.onDelete THEN <<Call("onDelete", <<payload.old>>)>> ELSE <<>>
    [] OTHER -> <<>>

\* handleChange(payload): the calls it makes, in order
HandleChangeCalls(cb, payload) ==
  (IF cb.onChange THEN <<Call("onChange", <<payload>>)>> ELSE <<>>)
  \o TypedCalls(cb, payload)

DspInit ==
  /\ dCallbacks \in [onChange : BOOLEAN, onInsert : BOOLEAN, onUpdate : BOOLEAN,
                     onDelete : BOOLEAN]
  /\ dLog = <<>>
  /\ nDispatch = 0

\* the open channel delivers a change event
DspDispatch(payload) ==
  /\ nDispatch < MaxOps
  /\ nDispatch' = nDispatch + 1
  /\ dLog' = Append(dLog, [event |-> payload,
                           calls |-> HandleChangeCalls(dCallbacks, payload)])
  /\ UNCHANGED dCallbacks
  /\ UNCHANGED notDspVars

NextDispatch == \E payload \in Payloads : DspDispatch(payload)

InitDispatch == NotifIdle /\ TradesIdle /\ TrgIdle /\ SumIdle /\ HdlIdle /\ ShIdle /\ DspInit /\ PfIdle /\ StIdle /\ ScIdle

SpecDispatch == InitDispatch /\ [][NextDispatch]_vars

\* the callback an event type selects, whether the caller gave it, its argument
SelectedFn(t) ==
  CASE t = "INSERT" -> "onInsert" [] t = "UPDATE" -> "onUpdate" [] t = "DELETE" -> "onDelete"
SelectedGiven(t) ==
  CASE t = "INSERT" -> dCallbacks.onInsert
    [] t = "UPDATE" -> dCallbacks.onUpdate
    [] t = "DELETE" -> dCallbacks.onDelete
SelectedArg(p) ==
  CASE p.eventType = "INSERT" -> <<p.new>>
    [] p.eventType = "UPDATE" -> <<p.old, p.new>>
    [] p.eventType = "DELETE" -> <<p.old>>

Rates == {-LossThreshold - 2, -LossThreshold - 1, -LossThreshold, 0,
          ProfitThreshold - 1, ProfitThreshold, ProfitThreshold + 2}

\* WHEN (OLD.profit_loss_rate IS DISTINCT FROM NEW.profit_loss_rate); the
\* column is NOT NULL
TriggerFires(old, new) == old # new

\* check_portfolio_alerts: the types of the rows it inserts
AlertRows(old, new) ==
  (IF new <= -LossThreshold THEN <<"stop_loss">> ELSE <<>>)
  \o (IF new >= ProfitThreshold THEN <<"take_profit">> ELSE <<>>)

PfInit ==
  /\ pfRate \in Rates
  /\ pfLog = <<>>
  /\ nPfOps = 0

\* UPDATE portfolio SET profit_loss_rate = new (new = old: an update of
\* other columns)
PfUpdate(new) ==
  /\ nPfOps < MaxOps
  /\ nPfOps' = nPfOps + 1
  /\ pfRate' = new
  /\ pfLog' = Append(pfLog, [old |-> pfRate, new |-> new,
                             rows |-> IF TriggerFires(pfRate, new)
                                        THEN AlertRows(pfRate, new) ELSE <<>>])
  /\ UNCHANGED notPfVars

NextPortfolio == \E new \in Rates : PfUpdate(new)

InitPortfolio == NotifIdle /\ TradesIdle /\ TrgIdle /\ SumIdle /\ HdlIdle /\ ShIdle /\ DspIdle /\ PfInit /\ StIdle /\ ScIdle

SpecPortfolio == InitPortfolio /\ [][NextPortfolio]_vars

Has(rows, type) == \E k \in 1..Len(rows) : rows[k] = type

\* C19: an update inserts a 'stop_loss' row exactly when the rate goes from
\* above -5 to -5 or below, and a 'take_profit' row exactly when it goes from
\* below 10 to 10 or above; an update of a position that stays beyond the
\* threshold inserts nothing.
C19_AlertOnCrossingOnly ==
  \A k \in 1..Len(pfLog) :
    /\ Has(pfLog[k].rows, "stop_loss")
         <=> (pfLog[k].old > -LossThreshold /\ pfLog[k].new <= -LossThreshold)
    /\ Has(pfLog[k].rows, "take_profit")
         <=> (pfLog[k].old < ProfitThreshold /\ pfLog[k].new >= ProfitThreshold)

(* ------------------- SpecStrategy: the new-strategy page ---------------- *)

\* inputs of create_strategy tool calls, as strategyInputSchema admits them;
\* an optional field is <<>> when the call leaves it out
ToolInputs ==
  { [name |-> "A", description |-> "d", strategy_type |-> "macd",
     parameters |-> <<"{fast: 12}">>, stock_codes |-> <<"005930">>,
     max_investment |-> <<1000000>>, max_loss_rate |-> <<5>>,
     take_profit_rate |-> <<10>>],
    [name |-> "B", description |-> "d", strategy_type |-> "custom",
     parameters |-> <<>>, stock_codes |-> <<>>,
     max_investment |-> <<>>, max_loss_rate |-> <<>>,
     take_profit_rate |-> <<>>],
    [name |-> "C", description |-> "", strategy_type |-> "rsi_oversold",
     parameters |-> <<"{}">>, stock_codes |-> <<"">>,
     max_investment |-> <<0>>, max_loss_rate |-> <<0>>,
     take_profit_rate |-> <<0>>] }

NoInput == [name |-> "", description |-> "", strategy_type |-> "",
            parameters |-> <<>>, stock_codes |-> <<>>, max_investment |-> <<>>,
            max_loss_rate |-> <<>>, take_profit_rate |-> <<>>]

\* parts of assistant messages: text, tool-create_strategy, tool-modify_strategy
Parts ==
  {[type |-> "text", input |-> NoInput], [type |-> "tool-modify_strategy", input |-> NoInput]}
  \cup {[type |-> "tool-create_strategy", input |-> i] : i \in ToolInputs}

\* { ...args, is_active: false, priority: 0 }
Generated(args) ==
  [name |-> args.name, description |-> args.description,
   strategy_type |-> args.strategy_type, parameters |-> args.parameters,
   stock_codes |-> args.stock_codes, max_investment |-> args.max_investment,
   max_loss_rate |-> args.max_loss_rate,
   take_profit_rate |-> args.take_profit_rate,
   is_active |-> FALSE, priority |-> 0]

\* the indexes of the parts the effect hands to onStrategyGenerated
CreateParts(msgs) ==
  {k \in 1..Len(msgs) : msgs[k].type = "tool-create_strategy"}

LastOf(S) == CHOOSE k \in S : \A j \in S : j <= k

\* x || null for a number and for a string; x || {} for the parameters
NumberOrNull(v) == IF v = <<>> \/ v = <<0>> THEN <<>> ELSE v
StringOrNull(v) == IF v = <<>> \/ v = <<"">> THEN <<>> ELSE v
ObjectOrEmpty(v) == IF v = <<>> THEN <<"{}">> ELSE v

\* the object handleSave passes to insert(); <<>> is SQL NULL
InsertRow(s) ==
  [name |-> s.name, description |-> s.description,
   strategy_type |-> s.strategy_type,
   parameters |-> ObjectOrEmpty(s.parameters),
   stock_codes |-> StringOrNull(s.stock_codes),
   max_investment |-> NumberOrNull(s.max_investment),
   max_loss_rate |-> NumberOrNull(s.max_loss_rate),
   take_profit_rate |-> NumberOrNull(s.take_profit_rate),
   is_active |-> FALSE, priority |-> 0]

StInit ==
  /\ messages = <<>> /\ effectDue = FALSE /\ strategy = <<>>
  /\ isSaving = FALSE /\ stInsert = <<>> /\ strategies = <<>>
  /\ stAlerts = <<>> /\ stRoute = "new" /\ stCleared = <<>> /\ nStOps = 0

\* useChat appends a part of an assistant message; ChatInterface re-renders
\* with new messages, so its tool-call effect is due
StReceivePart(part) ==
  /\ stRoute = "new" /\ nStOps < MaxOps
  /\ nStOps' = nStOps + 1
  /\ messages' = Append(messages, part)
  /\ effectDue' = TRUE
  /\ UNCHANGED <<strategy, isSaving, stInsert, strategies, stAlerts, stRoute, stCleared>>
  /\ UNCHANGED notStVars

\* the effect of ChatInterface: onStrategyGenerated for every
\* tool-create_strategy part with an input, oldest first, so the last one
\* stays. setStrategy with a new object re-renders NewStrategyPage, which
\* hands ChatInterface a new handleStrategyGenerated: the effect is due again.
StToolCallEffect ==
  /\ stRoute = "new" /\ effectDue
  /\ IF CreateParts(messages) = {}
       THEN strategy' = strategy /\ effectDue' = FALSE
       ELSE /\ strategy' = <<Generated(messages[LastOf(CreateParts(messages))].input)>>
            /\ effectDue' = TRUE
  /\ UNCHANGED <<messages, isSaving, stInsert, strategies, stAlerts, stRoute, stCleared, nStOps>>
  /\ UNCHANGED notStVars

\* handleSave up to the await: returns at once without a preview; the save
\* button is disabled while isSaving
StHandleSave ==
  /\ stRoute = "new" /\ ~isSaving /\ nStOps < MaxOps
  /\ nStOps' = nStOps + 1
  /\ IF strategy = <<>>
       THEN UNCHANGED <<isSaving, stInsert, effectDue>>
       ELSE /\ isSaving' = TRUE
            /\ stInsert' = <<[row |-> InsertRow(strategy[1]), preview |-> strategy[1]]>>
            /\ effectDue' = TRUE
  /\ UNCHANGED <<messages, strategy, strategies, stAlerts, stRoute, stCleared>>
  /\ UNCHANGED notStVars

InsertOutcomes == {"stored", "error", "throws"}

\* handleSave with setIsSaving(false) as the last statement of try, no finally
StInsertSettlesNoFinally(outcome) ==
  /\ stInsert # <<>>
  /\ stInsert' = <<>>
  /\ isSaving' = (outcome # "stored")
  /\ effectDue' = TRUE
  /\ strategies' = IF outcome = "stored" THEN Append(strategies, stInsert[1])
                   ELSE strategies
  /\ stAlerts' = IF outcome = "stored" THEN stAlerts
                 ELSE Append(stAlerts, outcome)
  /\ stRoute' = IF outcome = "stored" THEN "list" ELSE stRoute
  /\ UNCHANGED <<messages, strategy, stCleared, nStOps>>
  /\ UNCHANGED notStVars

\* handleSave after the await: { error } -> alert and return; a throw ->
\* alert in catch; otherwise router.push; finally setIsSaving(false)
StInsertSettles(outcome) ==
  /\ stInsert # <<>>
  /\ stInsert' = <<>>
  /\ isSaving' = FALSE
  /\ effectDue' = TRUE
  /\ strategies' = IF outcome = "stored" THEN Append(strategies, stInsert[1])
                   ELSE strategies
  /\ stAlerts' = IF outcome = "stored" THEN stAlerts
                 ELSE Append(stAlerts, outcome)
  /\ stRoute' = IF outcome = "stored" THEN "list" ELSE stRoute
  /\ UNCHANGED <<messages, strategy, stCleared, nStOps>>
  /\ UNCHANGED notStVars

\* handleClear: setStrategy(null); the state change re-renders the page, so
\* ChatInterface gets a new handleStrategyGenerated and its effect is due.
\* StrategyPreview renders the clear button only with a preview.
StHandleClear ==
  /\ stRoute = "new" /\ nStOps < MaxOps
  /\ strategy # <<>>
  /\ nStOps' = nStOps + 1
  /\ strategy' = <<>>
  /\ effectDue' = TRUE
  /\ stCleared' = <<Len(messages)>>
  /\ UNCHANGED <<messages, isSaving, stInsert, strategies, stAlerts, stRoute>>
  /\ UNCHANGED notStVars

NextStrategy ==
  \/ \E part \in Parts : StReceivePart(part)
  \/ StToolCallEffect
  \/ StHandleSave
  \/ \E outcome \in InsertOutcomes : StInsertSettles(outcome)
  \/ StHandleClear

InitStrategy == NotifIdle /\ TradesIdle /\ TrgIdle /\ SumIdle /\ HdlIdle /\ ShIdle /\ DspIdle /\ PfIdle /\ StInit /\ ScIdle

SpecStrategy == InitStrategy /\ [][NextStrategy]_vars

\* an optional field the tool call supplied is stored with the supplied value
KeptAsSupplied(written, supplied) == supplied # <<>> => written = supplied

\* C21: every row written to strategies carries the name, description,
\* strategy_type, parameters, stock_codes, max_investment, max_loss_rate and
\* take_profit_rate of the preview exactly as the create_strategy tool call
\* supplied them, with is_active = false and priority = 0.
C21_SavedVerbatim ==
  \A k \in 1..Len(strategies) :
    LET w == strategies[k].row
        p == strategies[k].preview
    IN /\ w.name = p.name /\ w.description = p.description
       /\ w.strategy_type = p.strategy_type
       /\ KeptAsSupplied(w.parameters, p.parameters)
       /\ KeptAsSupplied(w.stock_codes, p.stock_codes)
       /\ KeptAsSupplied(w.max_investment, p.max_investment)
       /\ KeptAsSupplied(w.max_loss_rate, p.max_loss_rate)
       /\ KeptAsSupplied(w.take_profit_rate, p.take_profit_rate)
       /\ w.is_active = FALSE /\ w.priority = 0

\* the rest of C21: a row is written only when an insert issued by handleSave
\* with a preview settles, and handleSave without a preview issues no insert
C21_OnlyBySave ==
  [][/\ strategies' # strategies =>
          (stInsert # <<>> /\ strategies' = Append(strategies, stInsert[1]))
     /\ (stInsert = <<>> /\ stInsert' # <<>>) =>
          (strategy # <<>> /\ stInsert'[1].preview = strategy[1])]_vars

\* C22: when the insert of handleSave fails (an error is returned or the call
\* throws) one alert is shown, the page stays, the preview is unchanged and
\* isSaving is false afterwards; the page navigates to the strategies list
\* only in the step in which a row was stored.
C22_FailedSaveStays ==
  [][/\ (stInsert # <<>> /\ stInsert' = <<>> /\ strategies' = strategies) =>
          /\ Len(stAlerts') = Len(stAlerts) + 1
          /\ stRoute' = "new"
          /\ strategy' = strategy
          /\ isSaving /\ ~isSaving'
     /\ stRoute' # stRoute =>
          (stRoute' = "list" /\ Len(strategies') = Len(strategies) + 1
           /\ stAlerts' = stAlerts)]_vars

\* a returned error and a thrown exception have both been answered with an
\* alert, and the page still shows the preview, ready to save again
C22_Witness ==
  /\ \E k \in 1..Len(stAlerts) : stAlerts[k] = "error"
  /\ \E k \in 1..Len(stAlerts) : stAlerts[k] = "throws"
  /\ stRoute = "new" /\ strategy # <<>> /\ ~isSaving /\ strategies = <<>>

(* -------------------- SpecCard: StrategyCard.handleToggle --------------- *)

\* toggles of the switch in one run
MaxToggles == 5

\* what the update of the row can come to: applied without error, rejected
\* with { error }, or a throw before anything was sent (createClient)
UpdateOutcomes == {"ok", "error", "throws"}

\* const [isActive, setIsActive] = useState(strategy.is_active), the prop
\* being the row the server component has just read
ScInit ==
  /\ scStored \in BOOLEAN /\ isActive = scStored
  /\ isUpdating = FALSE /\ scPc = "idle"
  /\ scNewStatus = FALSE /\ scError = FALSE /\ scLog = <<>> /\ nScOps = 0

\* onCheckedChange of the Switch, which is disabled while isUpdating:
\* handleToggle up to the await
ScHandleToggle ==
  /\ scPc = "idle" /\ ~isUpdating /\ nScOps < MaxToggles
  /\ nScOps' = nScOps + 1
  /\ isUpdating' = TRUE
  /\ scNewStatus' = ~isActive
  /\ scPc' = "sent"
  /\ UNCHANGED <<scStored, isActive, scError, scLog>>
  /\ UNCHANGED notScVars

\* update({ is_active: scNewStatus }).eq("id", strategy.id) at the database
ScUpdate(outcome) ==
  /\ scPc = "sent"
  /\ scLog' = Append(scLog, outcome)
  /\ scStored' = IF outcome = "ok" THEN scNewStatus ELSE scStored
  /\ scError' = (outcome = "error")
  \* a throw leaves handleToggle for good: isUpdating stays true
  /\ scPc' = IF outcome = "throws" THEN "idle" ELSE "answered"
  /\ UNCHANGED <<isActive, isUpdating, scNewStatus, nScOps>>
  /\ UNCHANGED notScVars

\* handleToggle with setIsActive(newStatus) outside the error test
ScSettleRegardless ==
  /\ scPc = "answered"
  /\ isActive' = scNewStatus
  /\ isUpdating' = FALSE
  /\ scPc' = "idle"
  /\ UNCHANGED <<scStored, scNewStatus, scError, scLog, nScOps>>
  /\ UNCHANGED notScVars

\* handleToggle after the await
ScSettle ==
  /\ scPc = "answered"
  /\ isActive' = IF ~scError THEN scNewStatus ELSE isActive
  /\ isUpdating' = FALSE
  /\ scPc' = "idle"
  /\ UNCHANGED <<scStored, scNewStatus, scError, scLog, nScOps>>
  /\ UNCHANGED notScVars

NextCard ==
  \/ ScHandleToggle
  \/ \E outcome \in UpdateOutcomes : ScUpdate(outcome)
  \/ ScSettle

InitCard == NotifIdle /\ TradesIdle /\ TrgIdle /\ SumIdle /\ HdlIdle /\ ShIdle /\ DspIdle /\ PfIdle /\ StIdle /\ ScInit

SpecCard == InitCard /\ [][NextCard]_vars

C23_InSync ==
  /\ scPc = "idle" => isActive = scStored
  /\ scPc # "idle" => isUpdating

C23_FlipStep ==
  /\ isActive' # isActive =>
       (scPc = "answered" /\ ~scError /\ scStored = scNewStatus
        /\ isActive' = scStored)
  /\ (scPc = "answered" /\ scError) => isActive' = isActive
  /\ (scPc = "idle" /\ scPc' = "sent") => (~isUpdating /\ isUpdating')

\* C23: the local isActive changes only in the step that handles an update
\* answered without error, to the value that update stored, and stays when
\* the update returned an error; a toggle starts only while isUpdating is
\* false and holds it true while the update is in flight; whenever no toggle
\* is in flight isActive equals the is_active stored in the database.
C23_ToggleFollowsWrite == []C23_InSync /\ [][C23_FlipStep]_vars

\* a rejected toggle followed by an accepted one, both handled
C23_Witness ==
  /\ scPc = "idle" /\ ~isUpdating /\ Len(scLog) >= 2
  /\ scLog[Len(scLog) - 1] = "error" /\ scLog[Len(scLog)] = "ok"
  /\ isActive = scStored

\* C25: with the fetch settled and only markAllAsRead, INSERT events and
\* UPDATE events at work, unreadCount is never below the number of unread
\* rows in the held list; a row inserted after markAllAsRead zeroed the
\* counter stays counted when the echoes of the earlier rows arrive.
C25_CountCoversHeldUnread ==
  (fetchState = "idle" /\ nRefresh = 0 /\ nMarks = 0)
    => unreadCount >= UnreadIn(notifications)

\* the held rows that INSERT events brought while the fetch was in flight:
\* they are not in the fetch's snapshot and are among the newest rows of the
\* table
BroughtByEvents ==
  {k \in 1..Len(notifications) :
     /\ notifications[k].id > Len(db) - NotificationLimit
     /\ \A j \in 1..Len(fetchData.rows) : fetchData.rows[j].id # notifications[k].id}

\* C26: when a successful fetch is applied, every row an INSERT event put in
\* the list while that fetch was in flight is still held and still counted;
\* and an INSERT event dispatched with a fetch in flight puts its row in the
\* list and counts it.
C26_InsertSurvivesFetch ==
  [][/\ (fetchState = "responded" /\ fetchState' = "idle" /\ fetchData.ok) =>
          /\ \A k \in BroughtByEvents : notifications[k].id \in HeldIds'
          /\ unreadCount' >=
               Cardinality({k \in BroughtByEvents : ~notifications[k].is_read})
     /\ (InsertDispatched /\ fetchState # "idle") =>
          /\ Head(wire).new.id \in HeldIds'
          /\ unreadCount' = unreadCount + 1]_vars

\* C27: the held list never holds two rows with the same id, and (while
\* nothing has been marked read) unreadCount never exceeds the number of
\* unread rows of the table, that is, no row is counted twice.
C27_NoDuplicateNoDoubleCount ==
  /\ Len(notifications) = Cardinality(HeldIds)
  /\ (nMarks = 0 /\ nMarkAll = 0) => unreadCount <= UnreadRows(db)

\* C28: while the component is mounted and its callbacks have already been
\* called with an event, a change of the notifications table made after
\* useRealtime has closed and re-opened its subscription is put in flight
\* towards an open channel of the hook (so that it can be dispatched to the
\* callbacks): no event emitted between removeChannel and the completion of
\* the next subscribe is lost.
C28_NoEventLostAcrossReopen ==
  [][(mounted /\ nextChan > 2 /\ DOMAIN dispatched # {} /\ nextSeq' = nextSeq + 1) =>
        \E k \in 1..Len(wire') :
           wire'[k].seq = nextSeq /\ chanState[wire'[k].chan] = "joined"]_vars

\* request r calls for a notification: a trade INSERT, an UPDATE of a trade
\* into 'executed', or an alert that has type and message
CallsForRow(r) ==
  /\ hReqs[r].kind = "json"
  /\ IF hReqs[r].fn = "notify-trade"
       THEN \/ hReqs[r].type = "INSERT"
            \/ (hReqs[r].type = "UPDATE" /\ hReqs[r].status = "executed"
                /\ hReqs[r].old_status # "executed")
       ELSE hReqs[r].hasType /\ hReqs[r].hasMessage

\* C29: whenever notify-trade or notify-alert has answered a request that
\* calls for a notification with HTTP 200 and success = true, the row for
\* that request is in the notifications table.
C29_SuccessMeansStored ==
  \A r \in 1..nReqs :
    \A k \in ResponsesFor(r) :
      (CallsForRow(r) /\ hResponses[k].status = 200 /\ hResponses[k].success)
         => StoredFor(r) # {}

\* the create_strategy parts that arrived after the last handleClear
CreatedSinceClear ==
  {k \in CreateParts(messages) : stCleared = <<>> \/ k > stCleared[1]}

\* C30: a preview on the page is the input of a create_strategy tool call of
\* the message history with is_active = false and priority = 0 (text and
\* modify_strategy parts never make one), and after handleClear the preview
\* stays empty until a create_strategy tool call arrives that was not in the
\* history before the clear.
C30_PreviewFollowsCreate ==
  /\ strategy # <<>> =>
       /\ \E k \in CreateParts(messages) :
             /\ strategy[1].name = messages[k].input.name
             /\ strategy[1].max_loss_rate = messages[k].input.max_loss_rate
             /\ strategy[1].parameters = messages[k].input.parameters
       /\ strategy[1].is_active = FALSE /\ strategy[1].priority = 0
  /\ (stCleared # <<>> /\ CreatedSinceClear = {}) => strategy = <<>>

====
